---- MODULE Spec2Model ----
(***************************************************************************)
(* A model of AIReplyEngine (src/ai_reply_engine.py): the per-account      *)
(* connection cache (clients, client_last_used), the ai_conversations      *)
(* table behind db_manager, and generate_reply run by concurrent caller    *)
(* threads, one step per access to the table.                              *)
(*                                                                         *)
(*   Spec         the message pipeline: generate_reply on several threads, *)
(*                and settings edits between its steps                     *)
(*   SpecManager  the connection cache through its operations, each call   *)
(*                run to completion                                        *)
(*   SpecThreads  the connection cache with the calls of several threads   *)
(*                interleaved statement by statement                       *)
(*   SpecEvict    fetches and explicit invalidation while settings and api *)
(*                keys change                                              *)
(*   SpecHelpers  detect_intent, called on its own                         *)
(*   SpecStore    save_conversation and get_conversation_context, called   *)
(*                on their own                                             *)
(*   SpecPure     the pure helpers: _is_dashscope_api and                  *)
(*                _extract_response_content                                *)
(***************************************************************************)
EXTENDS Integers, Sequences, FiniteSets, TLC

\* ---------------------------------------------------------------- bounds
MaxRows == 4    \* rows the ai_conversations table may gain
MaxCap == 2     \* largest max_bargain_rounds a served account is configured with
MaxClock == 4   \* last reading of time.time(), in ticks of 30 minutes
MaxFaults == 1  \* store queries and connection constructions that fail
MaxContentLen == 4  \* parts of a response's content

\* ------------------------------------------------------------- constants
TicksPerHour == 2            \* 3600 seconds, in ticks of 1800 seconds
Accounts == {"a1", "a2"}     \* cookie_id
Served == {"a1"}             \* the accounts whose messages the pipeline handles
Inbox == {"c1"}              \* the chats whose messages the pipeline handles
Chats == {"c1", "c2"}        \* chat_id
DefaultMaxBargainRounds == 3 \* settings.get('max_bargain_rounds', 3)
Threads == {"t1", "t2"}      \* caller threads of generate_reply
Messages == {"m1"}           \* incoming message texts
Intents == {"price", "tech", "default"}
None == "None"               \* Python's None
NoClient == "NoClient"       \* cookie_id not in self.clients
RefuseReply == "refuse_reply"   \* the fixed text of line 345
GeneratedText == "generated"    \* a non-empty text the backend produced
ContextLimit == 20            \* get_conversation_context(..., limit: int = 20)
IdleHours == {1}             \* max_idle_hours arguments of the sweeps

VARIABLES
  settings,      \* db_manager.get_ai_reply_settings: cookie_id -> settings row
  db,            \* the ai_conversations table, in insertion order
  clients,       \* self.clients: cookie_id -> the api_key its connection was built with
  client_last_used, \* self.client_last_used: cookie_id -> timestamp (partial)
  clock,         \* time.time()
  built,         \* connections constructed per account since its last eviction
  pc,            \* per thread: position in generate_reply or get_client
  loc,           \* per thread: the locals of the call
  written,       \* per thread: the rows this invocation has inserted
  mpc,           \* the maintenance caller: position in clear_client_cache / cleanup_unused_clients
  mloc,          \* the maintenance caller: its locals
  faults,        \* store queries and connection constructions that have failed
  overlap,       \* conversations that have had two invocations under way at once
  created_at,    \* the created_at column of ai_conversations, row by row
  call           \* the helper call made last: its arguments and its value

vars == <<settings, db, clients, client_last_used, clock, built, pc, loc, written,
          mpc, mloc, faults, overlap, created_at, call>>

\* ------------------------------------------------------------ settings
\* The settings rows an account may hold; max_bargain_rounds is set per account
\* at start and kept by every later edit.
SettingsRow(enabled, key, model, url, cap) ==
  [ai_enabled |-> enabled, api_key |-> key, model_name |-> model,
   base_url |-> url, max_bargain_rounds |-> cap]

\* A base_url is the sequence of its host and path segments.
OpenAIUrl == <<"api.openai.com", "v1">>
DashScopeUrl == <<"dashscope.aliyuncs.com", "api", "v1", "apps", "app1", "completion">>

SettingsChoices(cap) ==
  { SettingsRow(TRUE, "k1", "gpt-4", OpenAIUrl, cap),
    SettingsRow(FALSE, "k1", "gpt-4", OpenAIUrl, cap),
    SettingsRow(TRUE, "", "gpt-4", OpenAIUrl, cap),
    SettingsRow(TRUE, "k1", "custom", DashScopeUrl, cap) }

AllSettings == UNION {SettingsChoices(c) : c \in 0..MaxCap \cup {DefaultMaxBargainRounds}}

\* Model names and base_urls a settings row may be given: sentinel names in
\* several spellings, other names (one of them with a sentinel inside it), no name;
\* URLs on the provider's domain, elsewhere, with the domain only in the path,
\* with the host spelt in capitals, and no URL.
ModelNames ==
  {"gpt-4", "qwen-plus", "custom", "Custom", "custom_zh", "dashscope", "DashScope",
   "qwen-custom", "Qwen-Custom", "custom-model", ""}
BaseUrls ==
  { OpenAIUrl, DashScopeUrl, <<"dashscope.aliyuncs.com">>,
    <<"proxy.example.com", "dashscope.aliyuncs.com", "v1">>,
    <<"DashScope.Aliyuncs.com", "api", "v1", "apps", "app1", "completion">>,
    <<>> }
ProtocolSettings ==
  {SettingsRow(TRUE, "k1", m, u, DefaultMaxBargainRounds) : m \in ModelNames, u \in BaseUrls}

\* What generate_reply reads of its settings snapshot (lines 341, 392).
Snapshot(s) ==
  [max_bargain_rounds |-> s.max_bargain_rounds, model_name |-> s.model_name,
   base_url |-> s.base_url]
NoSettings == Snapshot(SettingsRow(FALSE, "", "", <<>>, 0))

\* str.lower() on the model names in use.
Lower(s) ==
  CASE s = "Custom" -> "custom"
    [] s = "DashScope" -> "dashscope"
    [] s = "Qwen-Custom" -> "qwen-custom"
    [] OTHER -> s

\* 'x' in base_url, for a host or path segment x.
UrlContains(url, x) == \E i \in DOMAIN url : url[i] = x

\* A variant of _is_dashscope_api that compares the model name as it is written.
IsDashscopeApiCaseSensitive(s) ==
  LET is_custom_model == s.model_name \in {"custom", "custom_zh", "dashscope", "qwen-custom"}
      is_dashscope_url == UrlContains(s.base_url, "dashscope.aliyuncs.com")
  IN  is_custom_model /\ is_dashscope_url

\* _is_dashscope_api: a sentinel model name and the provider's domain in the URL.
IsDashscopeApi(s) ==
  LET is_custom_model == Lower(s.model_name) \in {"custom", "custom_zh", "dashscope", "qwen-custom"}
      is_dashscope_url == UrlContains(s.base_url, "dashscope.aliyuncs.com")
  IN  is_custom_model /\ is_dashscope_url

\* A variant of is_ai_enabled that never finds an account disabled.
IsAiEnabledAlways(a) == TRUE

\* is_ai_enabled: the enabled flag of the account's current settings.
IsAiEnabled(a) == settings[a].ai_enabled

\* ------------------------------------------------------------ the store
Row(cookie, chat, role, content, intent) ==
  [cookie_id |-> cookie, chat_id |-> chat, role |-> role, content |-> content, intent |-> intent]

\* Turns the table holds from before: one negotiation round of the served
\* conversation, a turn of another chat of the same account, and a turn of the
\* same chat id under another account.
EarlierRows ==
  << Row("a1", "c1", "user", "m0", "price"),
     Row("a1", "c1", "assistant", GeneratedText, "price"),
     Row("a1", "c2", "user", "m0", "price"),
     Row("a2", "c1", "user", "m0", "price") >>

\* The rows of one (conversation, account), oldest first.
History(chat, cookie) ==
  SelectSeq(db, LAMBDA r : r.chat_id = chat /\ r.cookie_id = cookie)

\* SELECT COUNT(*) ... WHERE chat_id = ? AND cookie_id = ? AND intent = 'price' AND role = 'user'
CountPriceUserRows(chat, cookie) ==
  Len(SelectSeq(db, LAMBDA r : r.chat_id = chat /\ r.cookie_id = cookie
                                 /\ r.intent = "price" /\ r.role = "user"))

\* A variant of get_bargain_count whose query leaves out role = 'user'.
GetBargainCountAnyRole(chat, cookie, ok) ==
  IF ok THEN Len(SelectSeq(db, LAMBDA r : r.chat_id = chat /\ r.cookie_id = cookie
                                           /\ r.intent = "price"))
  ELSE 0

\* A variant of get_bargain_count whose query asks for a tag no turn carries.
GetBargainCountWrongTag(chat, cookie, ok) ==
  IF ok THEN Len(SelectSeq(db, LAMBDA r : r.chat_id = chat /\ r.cookie_id = cookie
                                           /\ r.intent = "bargain" /\ r.role = "user"))
  ELSE 0

\* get_bargain_count: the count, or 0 when the query raises (ok = FALSE).
GetBargainCount(chat, cookie, ok) ==
  IF ok THEN CountPriceUserRows(chat, cookie) ELSE 0

\* A variant of save_conversation that stores no intent tag.
SaveConversationUntagged(table, cookie, chat, role, content, intent, ok) ==
  IF ok THEN Append(table, Row(cookie, chat, role, content, "default")) ELSE table

\* A variant of save_conversation that stores every turn as a user turn.
SaveConversationAsUser(table, cookie, chat, role, content, intent, ok) ==
  IF ok THEN Append(table, Row(cookie, chat, "user", content, intent)) ELSE table

\* A variant of save_conversation that files the turn under another chat.
SaveConversationElsewhere(table, cookie, chat, role, content, intent, ok) ==
  IF ok THEN Append(table, Row(cookie, CHOOSE c \in Chats : c # chat, role, content, intent))
  ELSE table

\* save_conversation: one INSERT; a failure (ok = FALSE) is logged and swallowed.
SaveConversation(table, cookie, chat, role, content, intent, ok) ==
  IF ok THEN Append(table, Row(cookie, chat, role, content, intent)) ELSE table

\* The created_at column after an INSERT at time now: the store stamps the row
\* with its creation time.
Stamped(stamps, now, ok) == IF ok THEN Append(stamps, now) ELSE stamps

\* The stamps of the turns the table holds from before, one per row, all past.
EarlierCreatedAt == [i \in 1..Len(EarlierRows) |-> i - Len(EarlierRows) - 1]

\* increment_bargain_count: pass.
IncrementBargainCount(table) == table

\* ---------------------------------------------------------- the backend
Raise == "raise"     \* the call raised
\* What a classification call yields: it raised, or the keywords its text contains.
Keywords == {"price", "price_zh", "tech", "tech_zh", "default"}
ClassifierReplies ==
  {[raised |-> TRUE, kw |-> {}]} \cup {[raised |-> FALSE, kw |-> k] : k \in SUBSET Keywords}
\* What a generation call yields: the extracted text (maybe empty), or Raise.
GenerationReplies == {GeneratedText, "", Raise}

\* detect_intent's matching of the response text (lines 301-313), and its
\* except branch (lines 315-317).
ParseIntent(r) ==
  IF r.raised THEN "default"
  ELSE IF "price" \in r.kw \/ "price_zh" \in r.kw THEN "price"
  ELSE IF "tech" \in r.kw \/ "tech_zh" \in r.kw THEN "tech"
  ELSE "default"

\* The negotiation cap of generate_reply (lines 340-342): refuse or proceed.
\* A variant of the cap test that allows one round more.
RefusesAboveCap(intent, bargain_count, max_bargain_rounds) ==
  intent = "price" /\ bargain_count > max_bargain_rounds

\* A variant of the cap test that refuses the round at the cap only.
RefusesAtCapOnly(intent, bargain_count, max_bargain_rounds) ==
  intent = "price" /\ bargain_count = max_bargain_rounds

Refuses(intent, bargain_count, max_bargain_rounds) ==
  intent = "price" /\ bargain_count >= max_bargain_rounds

\* ------------------------------------------------------------- threads
\* No helper has been called.
NoResponse == [malformed |-> FALSE, content |-> <<>>, reasoning |-> <<>>]
NoCall ==
  [fn |-> None, cookie |-> None, chat |-> None, settings |-> SettingsRow(FALSE, "", "", <<>>, 0),
   reply |-> [raised |-> FALSE, kw |-> {}], response |-> NoResponse,
   flag |-> FALSE, text |-> None, tokens |-> <<>>, context |-> <<>>]

InitLoc ==
  [cookie |-> None, chat |-> None, msg |-> None, snap |-> NoSettings,
   intent |-> None, bargain_count |-> 0, reply |-> None,
   gc_key |-> "", gen_called |-> FALSE, result |-> None]

InitMloc == [op |-> None, target |-> None, expired |-> {}, hours |-> 0]

\* Every account starts enabled, with a key, on the OpenAI-compatible protocol; a
\* served account with a cap up to MaxCap, the others with the default cap.
Caps(a) == IF a \in Served THEN 0..MaxCap ELSE {DefaultMaxBargainRounds}

InitRest ==
  /\ db = EarlierRows
  /\ clients = [a \in Accounts |-> NoClient]
  /\ client_last_used = [a \in {} |-> 0]
  /\ clock = 0
  /\ built = [a \in Accounts |-> 0]
  /\ pc = [t \in Threads |-> "idle"]
  /\ loc = [t \in Threads |-> InitLoc]
  /\ written = [t \in Threads |-> <<>>]
  /\ mpc = "idle"
  /\ mloc = InitMloc
  /\ faults = 0
  /\ overlap = {}
  /\ created_at = EarlierCreatedAt
  /\ call = NoCall

Init ==
  /\ settings \in [Accounts -> AllSettings]
  /\ \A a \in Accounts : /\ settings[a].ai_enabled /\ settings[a].api_key # ""
                          /\ ~IsDashscopeApi(settings[a])
                          /\ settings[a].max_bargain_rounds \in Caps(a)
  /\ InitRest

\* The same with every account on the default cap.
InitCache ==
  /\ settings = [a \in Accounts |->
                   SettingsRow(TRUE, "k1", "gpt-4", OpenAIUrl, DefaultMaxBargainRounds)]
  /\ InitRest

ReturnSites == {"ret_disabled", "ret_refused", "ret_noclient", "ret_empty",
                "ret_replied", "ret_error", "gc_done"}
Active(t) == pc[t] # "idle"

Goto(t, newpc, newloc) ==
  /\ pc' = [pc EXCEPT ![t] = newpc]
  /\ loc' = [loc EXCEPT ![t] = newloc]

CacheVars == <<clients, client_last_used, built>>
EnvVars == <<settings, clock, mpc, mloc, overlap>>

\* The operations that may fail (a store query, a construction) fail at most
\* MaxFaults times; oks are the outcomes of those the step performs.
Faults(oks) ==
  LET n == Cardinality({i \in DOMAIN oks : ~oks[i]}) IN
  /\ faults + n <= MaxFaults
  /\ faults' = faults + n

\* get_client constructs a connection for the account: none is cached and the
\* account is enabled and has a key (lines 59-61).
Constructs(a) ==
  clients[a] = NoClient /\ settings[a].ai_enabled /\ settings[a].api_key # ""

\* ------------------------------------------- the connection cache, by call
Without(f, a) == [x \in DOMAIN f \ {a} |-> f[x]]
With(f, a, v) == [x \in DOMAIN f \cup {a} |-> IF x = a THEN v ELSE f[x]]

\* get_client, lines 59-77, its return value: the cached connection when there is
\* one; else None for a disabled or keyless account or a failed construction
\* (ok = FALSE); else the connection built from the account's current settings.
GetClientValue(a, ok) ==
  IF clients[a] # NoClient THEN clients[a]
  ELSE IF ~settings[a].ai_enabled \/ settings[a].api_key = "" THEN None
  ELSE IF ok THEN settings[a].api_key
  ELSE None

\* A variant of get_client that timestamps only the connections it builds.
GetClientStampsNew(a, ok) ==
  LET c == GetClientValue(a, ok) IN
  IF c = None
  THEN UNCHANGED CacheVars
  ELSE /\ clients' = [clients EXCEPT ![a] = c]
       /\ built' = [built EXCEPT ![a] = IF clients[a] = NoClient THEN @ + 1 ELSE @]
       /\ client_last_used' = IF clients[a] = NoClient THEN With(client_last_used, a, clock)
                               ELSE client_last_used

\* get_client, lines 66 and 76, its effect: a connection built is cached, and a
\* connection returned is timestamped.
GetClient(a, ok) ==
  LET c == GetClientValue(a, ok) IN
  IF c = None
  THEN UNCHANGED CacheVars
  ELSE /\ clients' = [clients EXCEPT ![a] = c]
       /\ built' = [built EXCEPT ![a] = IF clients[a] = NoClient THEN @ + 1 ELSE @]
       /\ client_last_used' = With(client_last_used, a, clock)

\* A variant of clear_client_cache that leaves the named account's connection.
ClearedClientsKeepsTarget(target) ==
  IF target # None THEN clients
  ELSE [a \in Accounts |-> NoClient]

\* clear_client_cache, lines 480-487: one account's entries, or with no account all.
ClearedClients(target) ==
  IF target # None THEN [clients EXCEPT ![target] = NoClient]
  ELSE [a \in Accounts |-> NoClient]

ClearedLastUsed(target) ==
  IF target # None THEN Without(client_last_used, target)
  ELSE [a \in {} |-> 0]

ClearClientCache(target) ==
  /\ clients' = ClearedClients(target)
  /\ client_last_used' = ClearedLastUsed(target)
  /\ built' = [a \in Accounts |-> IF target \in {a, None} THEN 0 ELSE built[a]]
  /\ mloc' = [InitMloc EXCEPT !.op = "clear", !.target = target]
  /\ UNCHANGED <<settings, db, clock, pc, loc, written, mpc, faults, overlap, created_at, call>>

\* A variant of the sweep's test that takes max_idle_hours for ticks.
ExpiredClientsInTicks(now, max_idle_hours) ==
  {a \in DOMAIN client_last_used : now - client_last_used[a] > max_idle_hours}

\* The accounts a sweep at time now finds idle for longer than max_idle_hours
\* (lines 496-503).
ExpiredClients(now, max_idle_hours) ==
  LET max_idle == max_idle_hours * TicksPerHour IN
  {a \in DOMAIN client_last_used : now - client_last_used[a] > max_idle}

\* cleanup_unused_clients, lines 495-509.
CleanupUnusedClients(max_idle_hours) ==
  LET expired == ExpiredClients(clock, max_idle_hours) IN
  /\ clients' = [a \in Accounts |-> IF a \in expired THEN NoClient ELSE clients[a]]
  /\ client_last_used' = [a \in DOMAIN client_last_used \ expired |-> client_last_used[a]]
  /\ built' = [a \in Accounts |-> IF a \in expired THEN 0 ELSE built[a]]
  /\ mloc' = [InitMloc EXCEPT !.op = "sweep", !.expired = expired, !.hours = max_idle_hours]
  /\ UNCHANGED <<settings, db, clock, pc, loc, written, mpc, faults, overlap, created_at, call>>

\* A caller fetches an account's connection.
CallGetClient(t, a, ok) ==
  /\ pc[t] = "idle"
  /\ ok \/ Constructs(a)
  /\ Faults(<<ok>>)
  /\ GetClient(a, ok)
  /\ Goto(t, "gc_done", [InitLoc EXCEPT !.cookie = a, !.result = GetClientValue(a, ok)])
  /\ UNCHANGED <<db, written, EnvVars, created_at, call>>

\* -------------------------------------------------------- generate_reply
\* The table has room for the two rows of every invocation under way and of one more.
RoomFor(n) == (Len(db) - Len(EarlierRows)) + 2 * n <= MaxRows
NumActive == Cardinality({t \in Threads : Active(t)})

\* No invocation for the conversation is under way.
NoneActiveIn(a, c) == \A u \in Threads : Active(u) => loc[u].cookie # a \/ loc[u].chat # c

\* generate_reply, lines 322-327: the enabled check, then the settings snapshot.
Begin(t, a, c, m) ==
  /\ pc[t] = "idle"
  /\ RoomFor(NumActive + 1)
  /\ LET l == [InitLoc EXCEPT !.cookie = a, !.chat = c, !.msg = m] IN
       IF ~IsAiEnabled(a)
       THEN Goto(t, "ret_disabled", [l EXCEPT !.result = None])
       ELSE Goto(t, "detect", [l EXCEPT !.snap = Snapshot(settings[a])])
  /\ overlap' = IF NoneActiveIn(a, c) THEN overlap ELSE overlap \cup {<<c, a>>}
  /\ UNCHANGED <<db, written, CacheVars, settings, clock, mpc, mloc, faults, created_at, call>>

\* A variant of detect_intent without its except branch.
DetectIntentRaises(a, ok, r) ==
  LET s == settings[a] IN
  IF ~s.ai_enabled \/ s.api_key = "" THEN "default"
  ELSE IF ~IsDashscopeApi(s) /\ GetClientValue(a, ok) = None THEN "default"
  ELSE IF r.raised THEN Raise
  ELSE ParseIntent(r)

\* detect_intent, lines 272-317, its value: default for a disabled or keyless
\* account; the single-prompt protocol for a DashScope account; else the account's
\* connection, default without one, and the classification of the reply r.
DetectIntent(a, ok, r) ==
  LET s == settings[a] IN
  IF ~s.ai_enabled \/ s.api_key = "" THEN "default"
  ELSE IF IsDashscopeApi(s) THEN ParseIntent(r)
  ELSE IF GetClientValue(a, ok) = None THEN "default"
  ELSE ParseIntent(r)

\* detect_intent reaches get_client (line 293).
DetectUsesClient(a) ==
  settings[a].ai_enabled /\ settings[a].api_key # "" /\ ~IsDashscopeApi(settings[a])

\* generate_reply, line 330: the intent is detected.
Detect(t, ok) ==
  /\ pc[t] = "detect"
  /\ ok \/ (Constructs(loc[t].cookie) /\ ~IsDashscopeApi(settings[loc[t].cookie]))
  /\ Faults(<<ok>>)
  /\ LET a == loc[t].cookie IN
       /\ \E r \in ClassifierReplies :
            Goto(t, "fetch", [loc[t] EXCEPT !.intent = DetectIntent(a, ok, r)])
       /\ IF DetectUsesClient(a) THEN GetClient(a, ok) ELSE UNCHANGED CacheVars
  /\ UNCHANGED <<db, written, EnvVars, created_at, call>>

\* A variant of lines 403-406 without the empty-reply check.
GeneratedKeepsEmpty(t, l, r) ==
  LET g == [l EXCEPT !.gen_called = TRUE] IN
  IF r = Raise THEN Goto(t, "ret_error", [g EXCEPT !.result = None])
  ELSE Goto(t, "save_user", [g EXCEPT !.reply = r])

\* A variant of lines 419-421 that hands the error to the caller.
GeneratedLeaksError(t, l, r) ==
  LET g == [l EXCEPT !.gen_called = TRUE] IN
  IF r = Raise THEN Goto(t, "ret_error", [g EXCEPT !.result = Raise])
  ELSE IF r = "" THEN Goto(t, "ret_empty", [g EXCEPT !.result = None])
  ELSE Goto(t, "save_user", [g EXCEPT !.reply = r])

\* generate_reply, lines 403-406 and 419-421: what becomes of the generation call.
Generated(t, l, r) ==
  LET g == [l EXCEPT !.gen_called = TRUE] IN
  IF r = Raise THEN Goto(t, "ret_error", [g EXCEPT !.result = None])
  ELSE IF r = "" THEN Goto(t, "ret_empty", [g EXCEPT !.result = None])
  ELSE Goto(t, "save_user", [g EXCEPT !.reply = r])

\* generate_reply, lines 334-406: the round count is fetched and the cap applied;
\* under the cap the prompt is built and the call dispatched, on the single-prompt
\* protocol or on the account's connection.
Respond(t, fetched, ok) ==
  /\ pc[t] = "fetch"
  /\ ok \/ ( /\ Constructs(loc[t].cookie)
             /\ ~IsDashscopeApi(loc[t].snap)
             /\ ~Refuses(loc[t].intent,
                         GetBargainCount(loc[t].chat, loc[t].cookie, fetched),
                         loc[t].snap.max_bargain_rounds) )
  /\ Faults(<<fetched, ok>>)
  /\ LET a == loc[t].cookie
         n == GetBargainCount(loc[t].chat, a, fetched)
         l == [loc[t] EXCEPT !.bargain_count = n] IN
       IF Refuses(l.intent, n, l.snap.max_bargain_rounds)
       THEN /\ Goto(t, "save_user", [l EXCEPT !.reply = RefuseReply])
            /\ UNCHANGED CacheVars
       ELSE IF IsDashscopeApi(loc[t].snap)
       THEN /\ \E r \in GenerationReplies : Generated(t, l, r)
            /\ UNCHANGED CacheVars
       ELSE /\ GetClient(a, ok)
            /\ IF GetClientValue(a, ok) = None
               THEN Goto(t, "ret_noclient", [l EXCEPT !.result = None])
               ELSE \E r \in GenerationReplies : Generated(t, l, r)
  /\ UNCHANGED <<db, written, EnvVars, created_at, call>>

\* A variant of lines 347 and 409 that saves no user turn.
SaveUserSkipped(t, ok) ==
  /\ pc[t] = "save_user"
  /\ Goto(t, "save_asst", [loc[t] EXCEPT !.bargain_count = 0, !.snap = NoSettings])
  /\ UNCHANGED <<db, written, CacheVars, EnvVars, faults, created_at, call>>

\* generate_reply, lines 347 and 409: the user turn is saved. The round count and
\* the settings snapshot are not read again (their last use is the prompt).
SaveUser(t, ok) ==
  /\ pc[t] = "save_user"
  /\ Faults(<<ok>>)
  /\ db' = SaveConversation(db, loc[t].cookie, loc[t].chat, "user", loc[t].msg,
                            loc[t].intent, ok)
  /\ written' = [written EXCEPT ![t] =
                   SaveConversation(@, loc[t].cookie, loc[t].chat, "user", loc[t].msg,
                                    loc[t].intent, ok)]
  /\ created_at' = Stamped(created_at, clock, ok)
  /\ Goto(t, "save_asst", [loc[t] EXCEPT !.bargain_count = 0, !.snap = NoSettings])
  /\ UNCHANGED <<CacheVars, EnvVars, call>>

\* A variant of lines 410-417 that gives up the reply when the insert fails.
SaveAssistantOrNothing(t, ok) ==
  /\ pc[t] = "save_asst"
  /\ Faults(<<ok>>)
  /\ db' = SaveConversation(db, loc[t].cookie, loc[t].chat, "assistant",
                            loc[t].reply, loc[t].intent, ok)
  /\ written' = [written EXCEPT ![t] =
                   SaveConversation(@, loc[t].cookie, loc[t].chat, "assistant",
                                    loc[t].reply, loc[t].intent, ok)]
  /\ created_at' = Stamped(created_at, clock, ok)
  /\ Goto(t, IF loc[t].reply = RefuseReply THEN "ret_refused" ELSE "ret_replied",
          [loc[t] EXCEPT !.result = IF ok THEN loc[t].reply ELSE None])
  /\ UNCHANGED <<CacheVars, EnvVars, call>>

\* generate_reply, lines 348-349 and 410-417: the assistant turn is saved and the
\* reply returned.
SaveAssistant(t, ok) ==
  /\ pc[t] = "save_asst"
  /\ Faults(<<ok>>)
  /\ LET saved == SaveConversation(db, loc[t].cookie, loc[t].chat, "assistant",
                                    loc[t].reply, loc[t].intent, ok) IN
       db' = IF loc[t].reply # RefuseReply /\ loc[t].intent = "price"
             THEN IncrementBargainCount(saved) ELSE saved
  /\ written' = [written EXCEPT ![t] =
                   SaveConversation(@, loc[t].cookie, loc[t].chat, "assistant",
                                    loc[t].reply, loc[t].intent, ok)]
  /\ created_at' = Stamped(created_at, clock, ok)
  /\ Goto(t, IF loc[t].reply = RefuseReply THEN "ret_refused" ELSE "ret_replied",
          [loc[t] EXCEPT !.result = loc[t].reply])
  /\ UNCHANGED <<CacheVars, EnvVars, call>>

\* The caller has the result; the thread is free for the next call.
Return(t) ==
  /\ pc[t] \in ReturnSites
  /\ Goto(t, "idle", InitLoc)
  /\ written' = [written EXCEPT ![t] = <<>>]
  /\ UNCHANGED <<db, CacheVars, EnvVars, faults, created_at, call>>

\* ------------------------------------------------------- the environment
\* The account's settings row is edited (db_manager, outside this engine).
UpdateSettings(a, s) ==
  /\ s \in SettingsChoices(settings[a].max_bargain_rounds)
  /\ s # settings[a]
  /\ settings' = [settings EXCEPT ![a] = s]
  /\ UNCHANGED <<db, CacheVars, clock, pc, loc, written, mpc, mloc, faults, overlap, created_at, call>>

\* The account's api key is replaced by another one (db_manager, outside this
\* engine).
ApiKeys == {"k1", "k2"}
UpdateApiKey(a, k) ==
  /\ k # settings[a].api_key
  /\ settings' = [settings EXCEPT ![a].api_key = k]
  /\ UNCHANGED <<db, CacheVars, clock, pc, loc, written, mpc, mloc, faults, overlap, created_at, call>>

\* Time passes.
Tick ==
  /\ clock < MaxClock
  /\ clock' = clock + 1
  /\ UNCHANGED <<settings, db, CacheVars, pc, loc, written, mpc, mloc, faults, overlap, created_at, call>>

Next ==
  \/ \E t \in Threads, a \in Served, c \in Inbox, m \in Messages : Begin(t, a, c, m)
  \/ \E t \in Threads, ok \in BOOLEAN : Detect(t, ok)
  \/ \E t \in Threads, fetched \in BOOLEAN, ok \in BOOLEAN : Respond(t, fetched, ok)
  \/ \E t \in Threads, ok \in BOOLEAN : SaveUser(t, ok)
  \/ \E t \in Threads, ok \in BOOLEAN : SaveAssistant(t, ok)
  \/ \E t \in Threads : Return(t)
  \/ \E a \in Served, s \in AllSettings : UpdateSettings(a, s)

Spec == Init /\ [][Next]_vars

\* The connection cache through its operations, each call run to completion.
NextManager ==
  \/ \E t \in Threads, a \in Accounts, ok \in BOOLEAN : CallGetClient(t, a, ok)
  \/ \E t \in Threads : Return(t)
  \/ \E target \in Accounts \cup {None} : ClearClientCache(target)
  \/ \E h \in IdleHours : CleanupUnusedClients(h)
  \/ \E a \in Accounts, s \in AllSettings : UpdateSettings(a, s)
  \/ Tick

SpecManager == InitCache /\ [][NextManager]_vars

\* Fetches and explicit invalidation while the accounts' settings and keys change.
NextEvict ==
  \/ \E t \in Threads, a \in Accounts, ok \in BOOLEAN : CallGetClient(t, a, ok)
  \/ \E t \in Threads : Return(t)
  \/ \E target \in Accounts \cup {None} : ClearClientCache(target)
  \/ \E a \in Accounts, s \in AllSettings : UpdateSettings(a, s)
  \/ \E a \in Accounts, k \in ApiKeys : UpdateApiKey(a, k)

SpecEvict == InitCache /\ [][NextEvict]_vars

\* --------------------------------- the connection cache, by statement
\* The methods hold no lock: the statements of calls made on different threads
\* interleave.
PipelineVars == <<db, written, faults, overlap>>

\* A caller enters get_client.
GcEnter(t, a) ==
  /\ pc[t] = "idle"
  /\ Goto(t, "gc_check", [InitLoc EXCEPT !.cookie = a])
  /\ UNCHANGED <<CacheVars, settings, clock, mpc, mloc, PipelineVars, created_at, call>>

\* get_client, lines 59-62: a cached connection is used as it is; without one the
\* account's settings are read, and a disabled or keyless account gets None.
GcCheck(t) ==
  /\ pc[t] = "gc_check"
  /\ LET a == loc[t].cookie
         s == settings[a] IN
       IF clients[a] # NoClient THEN Goto(t, "gc_touch", loc[t])
       ELSE IF ~s.ai_enabled \/ s.api_key = ""
       THEN Goto(t, "gc_done", [loc[t] EXCEPT !.result = None])
       ELSE Goto(t, "gc_construct", [loc[t] EXCEPT !.gc_key = s.api_key])
  /\ UNCHANGED <<CacheVars, settings, clock, mpc, mloc, PipelineVars, created_at, call>>

\* get_client, lines 64-73: the connection is built from the settings read and
\* cached.
GcConstruct(t) ==
  /\ pc[t] = "gc_construct"
  /\ LET a == loc[t].cookie IN
       /\ clients' = [clients EXCEPT ![a] = loc[t].gc_key]
       /\ built' = [built EXCEPT ![a] = @ + 1]
       /\ Goto(t, "gc_touch", [loc[t] EXCEPT !.gc_key = ""])
  /\ UNCHANGED <<client_last_used, settings, clock, mpc, mloc, PipelineVars, created_at, call>>

\* get_client, line 76: the use is timestamped.
GcTouch(t) ==
  /\ pc[t] = "gc_touch"
  /\ client_last_used' = With(client_last_used, loc[t].cookie, clock)
  /\ Goto(t, "gc_return", loc[t])
  /\ UNCHANGED <<clients, built, settings, clock, mpc, mloc, PipelineVars, created_at, call>>

\* get_client, line 77: self.clients[cookie_id], a KeyError when the entry is gone.
GcReturn(t) ==
  /\ pc[t] = "gc_return"
  /\ LET a == loc[t].cookie IN
       Goto(t, "gc_done",
            [loc[t] EXCEPT !.result = IF clients[a] = NoClient THEN Raise ELSE clients[a]])
  /\ UNCHANGED <<CacheVars, settings, clock, mpc, mloc, PipelineVars, created_at, call>>

MaintFrame == <<settings, db, clock, pc, loc, written, faults, overlap>>

\* clear_client_cache(cookie_id), line 481: the connection is popped.
ClearPopClient(a) ==
  /\ mpc = "idle"
  /\ clients' = [clients EXCEPT ![a] = NoClient]
  /\ built' = [built EXCEPT ![a] = 0]
  /\ mpc' = "clear_one"
  /\ mloc' = [InitMloc EXCEPT !.op = "clear", !.target = a]
  /\ UNCHANGED <<client_last_used, MaintFrame, created_at, call>>

\* clear_client_cache(cookie_id), line 482: the timestamp is popped.
ClearPopLastUsed ==
  /\ mpc = "clear_one"
  /\ client_last_used' = Without(client_last_used, mloc.target)
  /\ mpc' = "idle"
  /\ UNCHANGED <<clients, built, mloc, MaintFrame, created_at, call>>

\* clear_client_cache(), line 485: every connection is dropped.
ClearAllClients ==
  /\ mpc = "idle"
  /\ clients' = [a \in Accounts |-> NoClient]
  /\ built' = [a \in Accounts |-> 0]
  /\ mpc' = "clear_all"
  /\ mloc' = [InitMloc EXCEPT !.op = "clear"]
  /\ UNCHANGED <<client_last_used, MaintFrame, created_at, call>>

\* clear_client_cache(), line 486: every timestamp is dropped.
ClearAllLastUsed ==
  /\ mpc = "clear_all"
  /\ client_last_used' = [a \in {} |-> 0]
  /\ mpc' = "idle"
  /\ UNCHANGED <<clients, built, mloc, MaintFrame, created_at, call>>

\* cleanup_unused_clients, lines 496-503: the expired accounts are listed.
CleanupScan(h) ==
  /\ mpc = "idle"
  /\ LET expired == ExpiredClients(clock, h) IN
       /\ mloc' = [InitMloc EXCEPT !.op = "sweep", !.expired = expired, !.hours = h]
       /\ mpc' = IF expired = {} THEN "idle" ELSE "sweep"
  /\ UNCHANGED <<CacheVars, MaintFrame, created_at, call>>

\* cleanup_unused_clients, line 507: a listed account's connection is popped.
SweepPopClient(a) ==
  /\ mpc = "sweep"
  /\ a \in mloc.expired
  /\ clients' = [clients EXCEPT ![a] = NoClient]
  /\ built' = [built EXCEPT ![a] = 0]
  /\ mloc' = [mloc EXCEPT !.target = a]
  /\ mpc' = "sweep_pop"
  /\ UNCHANGED <<client_last_used, MaintFrame, created_at, call>>

\* cleanup_unused_clients, lines 508-509: its timestamp is popped (self.agents
\* holds nothing), and the loop goes on or ends.
SweepPopLastUsed ==
  /\ mpc = "sweep_pop"
  /\ client_last_used' = Without(client_last_used, mloc.target)
  /\ LET rest == mloc.expired \ {mloc.target} IN
       /\ mloc' = [mloc EXCEPT !.target = None, !.expired = rest]
       /\ mpc' = IF rest = {} THEN "idle" ELSE "sweep"
  /\ UNCHANGED <<clients, built, MaintFrame, created_at, call>>

NextThreads ==
  \/ \E t \in Threads, a \in Accounts : GcEnter(t, a)
  \/ \E t \in Threads : GcCheck(t)
  \/ \E t \in Threads : GcConstruct(t)
  \/ \E t \in Threads : GcTouch(t)
  \/ \E t \in Threads : GcReturn(t)
  \/ \E t \in Threads : Return(t)
  \/ \E a \in Accounts : ClearPopClient(a)
  \/ ClearPopLastUsed
  \/ ClearAllClients
  \/ ClearAllLastUsed
  \/ \E h \in IdleHours : CleanupScan(h)
  \/ \E a \in Accounts : SweepPopClient(a)
  \/ SweepPopLastUsed
  \/ Tick

SpecThreads == InitCache /\ [][NextThreads]_vars

\* ------------------------------------------------- the helpers, by call
HelperFrame == <<db, clock, pc, loc, written, mpc, mloc, overlap, created_at>>

\* detect_intent is called for an account.
CallDetectIntent(a, ok, r) ==
  /\ ok \/ (Constructs(a) /\ ~IsDashscopeApi(settings[a]))
  /\ Faults(<<ok>>)
  /\ IF DetectUsesClient(a) THEN GetClient(a, ok) ELSE UNCHANGED CacheVars
  /\ call' = [NoCall EXCEPT !.fn = "detect_intent", !.cookie = a, !.reply = r,
                            !.text = DetectIntent(a, ok, r)]
  /\ UNCHANGED <<settings, HelperFrame>>

\* _is_dashscope_api is called on a settings row.
CallIsDashscopeApi(s) ==
  /\ call' = [NoCall EXCEPT !.fn = "_is_dashscope_api", !.settings = s,
                            !.flag = IsDashscopeApi(s)]
  /\ UNCHANGED <<settings, CacheVars, faults, HelperFrame>>

NextHelpers ==
  \/ \E a \in Accounts, ok \in BOOLEAN, r \in ClassifierReplies : CallDetectIntent(a, ok, r)
  \/ \E a \in Accounts, s \in AllSettings : UpdateSettings(a, s)

SpecHelpers == InitCache /\ [][NextHelpers]_vars

\* ------------------------------------------------ the pure helpers
\* A text is the sequence of its parts: the markers <think> and </think>, white
\* space, and other characters.
ThinkOpen == "<think>"
ThinkClose == "</think>"
Space == " "
TextParts == {ThinkOpen, ThinkClose, Space, "a"}

RECURSIVE Texts(_)
Texts(n) == IF n = 0 THEN {<<>>} ELSE Texts(n - 1) \cup {Append(x, c) : x \in Texts(n - 1), c \in TextParts}

\* The responses a chat.completions.create call may give: without a first choice
\* or its message (malformed), or with content and reasoning_content, each maybe
\* empty or None.
Responses ==
  {[malformed |-> TRUE, content |-> <<>>, reasoning |-> <<>>]} \cup
  {[malformed |-> FALSE, content |-> x, reasoning |-> r] :
     x \in Texts(MaxContentLen), r \in {<<>>, <<"r">>}}

\* str.strip()
RECURSIVE Strip(_)
Strip(x) ==
  IF x = <<>> THEN x
  ELSE IF Head(x) = Space THEN Strip(Tail(x))
  ELSE IF x[Len(x)] = Space THEN Strip(SubSeq(x, 1, Len(x) - 1))
  ELSE x

\* re.sub(r'<think>.*?</think>', '', text, flags=re.DOTALL): from the first
\* <think> that has a </think> after it, up to the first </think> after it, is
\* removed, and the search goes on behind it.
RECURSIVE SubThink(_)
SubThink(x) ==
  LET opens == {i \in DOMAIN x : x[i] = ThinkOpen /\ \E j \in DOMAIN x : j > i /\ x[j] = ThinkClose} IN
  IF opens = {} THEN x
  ELSE LET i == CHOOSE k \in opens : \A m \in opens : k <= m
           j == CHOOSE k \in DOMAIN x :
                  /\ k > i /\ x[k] = ThinkClose
                  /\ \A m \in DOMAIN x : (m > i /\ x[m] = ThinkClose) => k <= m
       IN  SubSeq(x, 1, i - 1) \o SubThink(SubSeq(x, j + 1, Len(x)))

\* _clean_thinking_content, lines 166-172.
CleanThinkingContent(x) == IF x = <<>> THEN <<>> ELSE Strip(SubThink(x))

\* A variant of _extract_response_content that falls back on reasoning_content.
ExtractFallsBackOnReasoning(response) ==
  IF response.malformed THEN <<>>
  ELSE LET content == response.content
           final_reply == IF content = <<>> THEN <<>>
                          ELSE IF \E i \in DOMAIN content : content[i] = ThinkOpen
                          THEN CleanThinkingContent(content)
                          ELSE Strip(content)
       IN  IF final_reply = <<>> THEN response.reasoning ELSE final_reply

\* _extract_response_content, lines 174-213: the empty text for a response that
\* cannot be read (the except branch) and for one without content, whatever its
\* reasoning_content.
ExtractResponseContent(response) ==
  IF response.malformed THEN <<>>
  ELSE LET content == response.content
           final_reply == IF content = <<>> THEN <<>>
                          ELSE IF \E i \in DOMAIN content : content[i] = ThinkOpen
                          THEN CleanThinkingContent(content)
                          ELSE Strip(content)
       IN  IF final_reply = <<>> THEN <<>> ELSE final_reply

PureFrame == <<settings, CacheVars, faults, HelperFrame>>

\* _extract_response_content is called on a response.
CallExtractResponseContent(response) ==
  /\ call' = [NoCall EXCEPT !.fn = "_extract_response_content", !.response = response,
                            !.tokens = ExtractResponseContent(response)]
  /\ UNCHANGED PureFrame

NextPure ==
  \/ \E s \in ProtocolSettings : CallIsDashscopeApi(s)
  \/ \E response \in Responses : CallExtractResponseContent(response)

SpecPure == InitCache /\ [][NextPure]_vars

\* ------------------------------------------- the conversation store, by call
\* The rows of ai_conversations (by position in the table) that match
\* chat_id = ? AND cookie_id = ?.
Matching(chat, cookie) ==
  {i \in DOMAIN db : db[i].chat_id = chat /\ db[i].cookie_id = cookie}

\* ORDER BY created_at DESC over the rows I: every order the store may give them
\* in, rows with equal created_at in any order.
RECURSIVE NewestFirst(_)
NewestFirst(I) ==
  IF I = {} THEN {<<>>}
  ELSE UNION { {<<i>> \o p : p \in NewestFirst(I \ {i})} :
               i \in {i \in I : \A j \in I : created_at[i] >= created_at[j]} }

\* LIMIT ?
Limited(p, limit) == SubSeq(p, 1, IF Len(p) < limit THEN Len(p) ELSE limit)

\* The results cursor.fetchall() may return for the query of lines 428-432.
FetchAll(chat, cookie, limit) ==
  {Limited(p, limit) : p \in NewestFirst(Matching(chat, cookie))}

Reversed(p) == [i \in 1..Len(p) |-> p[Len(p) + 1 - i]]

\* get_conversation_context, lines 434-440: role and content of the results,
\* reversed; the empty list when the query raises (ok = FALSE).
GetConversationContext(results, ok) ==
  IF ok THEN [i \in 1..Len(results) |->
                [role |-> db[Reversed(results)[i]].role,
                 content |-> db[Reversed(results)[i]].content]]
  ELSE <<>>

StoreFrame == <<settings, CacheVars, pc, loc, written, mpc, mloc, overlap>>

\* save_conversation is called.
CallSaveConversation(a, c, role, content, intent, ok) ==
  /\ Len(db) - Len(EarlierRows) < MaxRows
  /\ Faults(<<ok>>)
  /\ db' = SaveConversation(db, a, c, role, content, intent, ok)
  /\ created_at' = Stamped(created_at, clock, ok)
  /\ UNCHANGED <<clock, call, StoreFrame>>

\* get_conversation_context is called with the default limit.
CallGetConversationContext(c, a, ok) ==
  /\ Faults(<<ok>>)
  /\ \E results \in FetchAll(c, a, ContextLimit) :
       call' = [NoCall EXCEPT !.fn = "get_conversation_context", !.chat = c, !.cookie = a,
                             !.context = GetConversationContext(results, ok)]
  /\ UNCHANGED <<db, created_at, clock, StoreFrame>>

\* Time passes between two calls.
StoreTick ==
  /\ clock < MaxClock
  /\ clock' = clock + 1
  /\ UNCHANGED <<db, created_at, call, faults, StoreFrame>>

Turns == {<<"user", "m1">>, <<"assistant", GeneratedText>>}

NextStore ==
  \/ \E a \in Served, c \in Inbox, turn \in Turns, ok \in BOOLEAN :
       CallSaveConversation(a, c, turn[1], turn[2], "price", ok)
  \/ \E a \in Served, c \in Chats, ok \in BOOLEAN : CallGetConversationContext(c, a, ok)
  \/ StoreTick

SpecStore == InitCache /\ [][NextStore]_vars

\* ------------------------------------------------------------ properties
Conversations == {<<r.chat_id, r.cookie_id>> : r \in {db[i] : i \in DOMAIN db}}

\* The number of user turns tagged price among the rows of a sequence.
PriceUserTurns(rows) ==
  Cardinality({i \in DOMAIN rows : rows[i].role = "user" /\ rows[i].intent = "price"})

\* The thread holds the round count it fetched and the cap it was compared with.
HoldsCount(t) == pc[t] \in {"save_user", "ret_noclient", "ret_empty", "ret_error"}
OnRefusalPath(t) == loc[t].reply = RefuseReply

UserTurn(t) == Row(loc[t].cookie, loc[t].chat, "user", loc[t].msg, loc[t].intent)
AssistantTurn(t) == Row(loc[t].cookie, loc[t].chat, "assistant", loc[t].reply, loc[t].intent)

\* C1: after the round count r is fetched and compared with the cap m, the
\* invocation is on the refusal path exactly when its intent is price and r >= m;
\* with price and r < m, and with any other intent, it is on the generation path.
C1_RefuseIffPriceAtCap ==
  \A t \in Threads :
    HoldsCount(t) =>
      ( OnRefusalPath(t) <=>
          ( loc[t].intent = "price"
            /\ loc[t].bargain_count >= loc[t].snap.max_bargain_rounds ) )

C1_Witness ==
  \E t \in Threads :
    /\ pc[t] = "save_user" /\ OnRefusalPath(t)
    /\ loc[t].snap.max_bargain_rounds >= 1
    /\ loc[t].bargain_count >= loc[t].snap.max_bargain_rounds

\* C2: an invocation that finds its account disabled returns None and inserts no
\* row: the step that begins it ends it, with the table as it was.
C2_DisabledStep ==
  \A t \in Threads :
    (pc[t] = "idle" /\ pc'[t] \notin {"idle", "gc_done"}
       /\ ~settings[loc'[t].cookie].ai_enabled)
    => (pc'[t] = "ret_disabled" /\ loc'[t].result = None /\ db' = db
          /\ written'[t] = <<>>)

C2_DisabledNoReplyNoWrite ==
  /\ [](\A t \in Threads : pc[t] = "ret_disabled" =>
                               loc[t].result = None /\ written[t] = <<>>)
  /\ [][C2_DisabledStep]_vars

C2_Witness == \E t \in Threads : pc[t] = "ret_disabled"

\* C3 (as claimed): a refused invocation has made no generation call, has inserted
\* exactly the user turn and then the refusal as assistant turn, both tagged price,
\* and returns the refusal text.
C3_RefusalAppendsTwo ==
  \A t \in Threads :
    pc[t] = "ret_refused" =>
      /\ ~loc[t].gen_called
      /\ loc[t].result = RefuseReply
      /\ loc[t].intent = "price"
      /\ written[t] = <<UserTurn(t), AssistantTurn(t)>>

\* C3 (amended): a refused invocation has made no generation call and returns the
\* refusal text; it has inserted, in this order, the user turn and the refusal as
\* assistant turn, both tagged price, less the turns whose insert failed: both
\* when no store operation has failed.
C3_RefusalAppendsSaved ==
  \A t \in Threads :
    pc[t] = "ret_refused" =>
      /\ ~loc[t].gen_called
      /\ loc[t].result = RefuseReply
      /\ loc[t].reply = RefuseReply
      /\ loc[t].intent = "price"
      /\ written[t] \in { <<UserTurn(t), AssistantTurn(t)>>, <<UserTurn(t)>>,
                           <<AssistantTurn(t)>>, <<>> }
      /\ (faults = 0 => written[t] = <<UserTurn(t), AssistantTurn(t)>>)

C3_Witness ==
  \E t \in Threads : pc[t] = "ret_refused" /\ Len(written[t]) = 2

\* C4: an invocation whose generation call yields nothing returns None and has
\* inserted no row, so it leaves the table, and with it every round count, as it
\* was; no row with empty content is ever stored.
C4_EmptyStep ==
  \A t \in Threads : (pc[t] # "ret_empty" /\ pc'[t] = "ret_empty") => db' = db

C4_EmptyReplyNotPersisted ==
  /\ [](\A t \in Threads : pc[t] = "ret_empty" =>
                               loc[t].result = None /\ written[t] = <<>>)
  /\ [](\A i \in DOMAIN db : db[i].content # "")
  /\ [][C4_EmptyStep]_vars

C4_Witness == \E t \in Threads : pc[t] = "ret_empty" /\ loc[t].intent = "price"

\* Every assistant turn of the conversation directly follows a user turn with the
\* same intent tag.
WellPaired(h) ==
  \A i \in DOMAIN h :
    h[i].role = "assistant" =>
      i > 1 /\ h[i-1].role = "user" /\ h[i-1].intent = h[i].intent

\* C5 (as claimed): in every reachable state, every assistant turn of every
\* conversation directly follows a user turn with the same intent tag.
C5_AssistantFollowsUser ==
  \A cv \in Conversations : WellPaired(History(cv[1], cv[2]))

\* C5 (amended): the same for every conversation whose invocations have been
\* handled one at a time, as long as no store operation has failed.
C5_AssistantFollowsUserSerial ==
  \A cv \in Conversations :
    (cv \notin overlap /\ faults = 0) => WellPaired(History(cv[1], cv[2]))

C5_Witness ==
  /\ overlap = {} /\ faults = 0
  /\ \E i \in DOMAIN db : i > Len(EarlierRows) /\ db[i].role = "assistant"

\* A step in which thread t fetches the round count of its conversation.
FetchStep(t) == pc[t] = "fetch" /\ pc'[t] # "fetch"

\* C6 (as claimed): the count get_bargain_count returns equals the number of user
\* turns tagged price in the conversation's history, and saving the assistant turn
\* (with increment_bargain_count after it) changes no conversation's count.
C6_FetchEquals ==
  \A t \in Threads :
    FetchStep(t) =>
      loc'[t].bargain_count = PriceUserTurns(History(loc[t].chat, loc[t].cookie))

C6_IncrementIsNoOp ==
  \A t \in Threads :
    (pc[t] = "save_asst" /\ pc'[t] # "save_asst") =>
      \A cv \in Conversations :
        PriceUserTurns(History(cv[1], cv[2])') = PriceUserTurns(History(cv[1], cv[2]))

C6_CountEqualsHistory == [][C6_FetchEquals /\ C6_IncrementIsNoOp]_vars

\* C6 (amended): the count get_bargain_count returns never exceeds the number of
\* user turns tagged price in the conversation's history and equals it whenever the
\* query succeeds (it is 0 when the query fails); saving the assistant turn
\* changes no conversation's count.
C6_FetchAtMost ==
  \A t \in Threads :
    FetchStep(t) =>
      LET n == PriceUserTurns(History(loc[t].chat, loc[t].cookie)) IN
      /\ loc'[t].bargain_count <= n
      /\ loc'[t].bargain_count \in {0, n}
      /\ (faults' = faults => loc'[t].bargain_count = n)

C6_CountWithinHistory == [][C6_FetchAtMost /\ C6_IncrementIsNoOp]_vars

C6_Witness ==
  \E t \in Threads : HoldsCount(t) /\ loc[t].bargain_count = 2

\* C7 (as claimed): a fetch of a conversation's round count returns no less than
\* an earlier fetch did; the count the history gives never decreases, and one
\* invocation raises it by at most 1.
SameConversation(t, u) == loc[t].cookie = loc[u].cookie /\ loc[t].chat = loc[u].chat

C7_LaterFetchNotLess ==
  \A t \in Threads : \A u \in Threads \ {t} :
    (FetchStep(t) /\ HoldsCount(u) /\ SameConversation(t, u)) =>
      loc'[t].bargain_count >= loc[u].bargain_count

C7_HistoryCountGrows ==
  db' = db \/ \A cv \in Conversations :
    LET n == PriceUserTurns(History(cv[1], cv[2]))
        m == PriceUserTurns(History(cv[1], cv[2])')
    IN  n <= m /\ m <= n + 1

C7_AtMostOnePerMessage ==
  \A t \in Threads : PriceUserTurns(written[t]) <= 1

C7_CountNeverDecreases ==
  /\ [][C7_LaterFetchNotLess /\ C7_HistoryCountGrows]_vars
  /\ []C7_AtMostOnePerMessage

\* C7 (amended): a fetch whose query succeeds returns no less than an earlier
\* fetch did (a fetch whose query fails returns 0); the count the history gives
\* never decreases, and one invocation raises it by at most 1.
C7_LaterGoodFetchNotLess ==
  \A t \in Threads : \A u \in Threads \ {t} :
    (FetchStep(t) /\ faults' = faults /\ HoldsCount(u) /\ SameConversation(t, u)) =>
      loc'[t].bargain_count >= loc[u].bargain_count

C7_CountNeverDecreasesUnlessFailed ==
  /\ [][C7_LaterGoodFetchNotLess /\ C7_HistoryCountGrows]_vars
  /\ []C7_AtMostOnePerMessage

C7_Witness ==
  \E t \in Threads : \E u \in Threads \ {t} :
    /\ PriceUserTurns(written[t]) = 1 /\ pc[t] = "save_asst"
    /\ HoldsCount(u) /\ SameConversation(t, u)
    /\ loc[u].bargain_count = 2

\* C8 (as claimed): a get_client call for an account whose current settings are
\* disabled or hold no api key returns None, whether or not a connection was
\* cached for the account before.
C8_DisabledGetsNone ==
  [][ \A t \in Threads :
        (pc[t] = "idle" /\ pc'[t] = "gc_done") =>
          LET a == loc'[t].cookie IN
          (~settings[a].ai_enabled \/ settings[a].api_key = "") =>
            loc'[t].result = None ]_vars

\* C9 (as claimed): with several threads in the cache's methods, at most one
\* connection is built per account between two evictions, no get_client call
\* raises, and no call reads the cache while its two maps disagree.
MapsAgree ==
  \A a \in Accounts : (clients[a] # NoClient) <=> (a \in DOMAIN client_last_used)

C9_CacheSynchronized ==
  /\ \A a \in Accounts : built[a] <= 1
  /\ \A t \in Threads : pc[t] = "gc_done" => loc[t].result # Raise
  /\ \A t \in Threads : pc[t] = "gc_check" => MapsAgree

\* C10: a sweep removes, from both maps, exactly the accounts last used more than
\* max_idle_hours before it, and leaves every other account's connection and
\* timestamp as they were: last used two hours before a one-hour sweep is
\* removed, last used thirty minutes before it is kept.
SweepStep ==
  mloc'.op = "sweep" /\ pc' = pc /\ clock' = clock /\ settings' = settings

IdleTicks(a) == clock - client_last_used[a]

C10_SweepStep ==
  SweepStep =>
    \A a \in Accounts :
      IF a \in DOMAIN client_last_used /\ IdleTicks(a) > mloc'.hours * TicksPerHour
      THEN clients'[a] = NoClient /\ a \notin DOMAIN client_last_used'
      ELSE /\ clients'[a] = clients[a]
           /\ (a \in DOMAIN client_last_used) <=> (a \in DOMAIN client_last_used')
           /\ a \in DOMAIN client_last_used =>
                client_last_used'[a] = client_last_used[a]

C10_SweepExample ==
  (SweepStep /\ mloc'.hours = 1) =>
    \A a \in DOMAIN client_last_used :
      /\ IdleTicks(a) = 2 * TicksPerHour => clients'[a] = NoClient
      /\ 2 * IdleTicks(a) = TicksPerHour => clients'[a] = clients[a] /\ clients'[a] # NoClient

C10_SweepRemovesIdle == [][C10_SweepStep /\ C10_SweepExample]_vars

C10_Witness ==
  /\ mloc.op = "sweep" /\ mloc.hours = 1 /\ mloc.expired # {}
  /\ \E a \in DOMAIN client_last_used : 2 * IdleTicks(a) = TicksPerHour /\ clients[a] # NoClient

\* C11: detect_intent never raises and its value is price, tech or default; it is
\* default when the account is disabled or has no api key, when get_client gave
\* no connection, and when the classification call raised.
DetectStep == call'.fn = "detect_intent" /\ settings' = settings

C11_DetectStep ==
  DetectStep =>
    LET a == call'.cookie
        s == settings[a]
    IN  ( \/ ~s.ai_enabled
          \/ s.api_key = ""
          \/ call'.reply.raised
          \/ (~IsDashscopeApi(s) /\ clients'[a] = NoClient) )
        => call'.text = "default"

C11_DetectIntentTotal ==
  /\ [](call.fn = "detect_intent" => call.text \in Intents)
  /\ [][C11_DetectStep]_vars

C11_Witness ==
  /\ call.fn = "detect_intent" /\ call.reply.raised /\ call.text = "default"
  /\ settings[call.cookie].ai_enabled /\ settings[call.cookie].api_key # ""

\* C12: generate_reply hands no error to its caller: it returns None, the refusal
\* text or a non-empty generated text; when the generation call raises, yields
\* nothing, or has no connection to run on, it returns None and has inserted no row.
FailedSites == {"ret_error", "ret_empty", "ret_noclient"}
ReplySites == ReturnSites \ {"gc_done"}

C12_FailStep ==
  \A t \in Threads : (pc[t] \notin FailedSites /\ pc'[t] \in FailedSites) => db' = db

C12_NoErrorEscapes ==
  /\ [](\A t \in Threads :
          pc[t] \in ReplySites =>
            /\ loc[t].result \in {None, RefuseReply, GeneratedText}
            /\ loc[t].result \notin {Raise, ""})
  /\ [](\A t \in Threads :
          pc[t] \in FailedSites => loc[t].result = None /\ written[t] = <<>>)
  /\ [][C12_FailStep]_vars

C12_Witness ==
  \E t \in Threads : pc[t] = "ret_error" /\ loc[t].gen_called /\ loc[t].result = None

\* C13: an insert that fails changes nothing but the table's missing row: the
\* invocation goes on to its next statement without trying the insert again, and
\* returns the reply it had computed, the generated text or the refusal text,
\* having inserted fewer rows than the two it tried.
InsertSites == {"save_user", "save_asst"}

C13_FailedInsertStep ==
  \A t \in Threads :
    (pc[t] \in InsertSites /\ pc'[t] # pc[t] /\ faults' > faults) =>
      /\ db' = db
      /\ written'[t] = written[t]
      /\ pc'[t] = IF pc[t] = "save_user" THEN "save_asst"
                  ELSE IF loc[t].reply = RefuseReply THEN "ret_refused" ELSE "ret_replied"
      /\ loc'[t].reply = loc[t].reply

C13_StoreFailureKeepsReply ==
  /\ [](\A t \in Threads :
          /\ pc[t] = "ret_replied" => loc[t].result = GeneratedText
          /\ pc[t] = "ret_refused" => loc[t].result = RefuseReply
          /\ pc[t] \in {"ret_replied", "ret_refused"} =>
                loc[t].result = loc[t].reply /\ Len(written[t]) <= 2)
  /\ [][C13_FailedInsertStep]_vars

C13_Witness ==
  \E t \in Threads :
    /\ pc[t] = "ret_replied" /\ loc[t].result = GeneratedText
    /\ Len(written[t]) = 1 /\ written[t][1].role = "user"

\* The model name is a sentinel name in some spelling.
SentinelNames ==
  {"custom", "Custom", "custom_zh", "dashscope", "DashScope", "qwen-custom", "Qwen-Custom"}
\* The URL's host is the provider's domain, in any spelling.
OnProviderDomain(url) ==
  url # <<>> /\ url[1] \in {"dashscope.aliyuncs.com", "DashScope.Aliyuncs.com"}
\* The URL has the provider's domain, in small letters, as host or in its path.
DomainAnywhere(url) == "dashscope.aliyuncs.com" \in {url[i] : i \in DOMAIN url}

Chronological(chat, cookie) ==
  LET h == History(chat, cookie)
      n == IF Len(h) < ContextLimit THEN Len(h) ELSE ContextLimit
  IN  [i \in 1..n |-> [role |-> h[Len(h) - n + i].role,
                        content |-> h[Len(h) - n + i].content]]

\* C15 (as claimed): a get_conversation_context call whose query succeeds returns
\* the turns persisted for the conversation in the order they were persisted, a
\* user turn before the assistant turn persisted after it, role and content as
\* stored, whatever order the store gives the rows in.
C15_ContextChronological ==
  [][ (call'.fn = "get_conversation_context" /\ db' = db /\ clock' = clock
         /\ faults' = faults)
      => call'.context = Chronological(call'.chat, call'.cookie) ]_vars

\* The part at position k of text x lies in a <think>...</think> block: reading
\* from the left, a block opens at a <think> that is outside any block and has a
\* </think> behind it, and closes with the next </think>.
RECURSIVE InBlock(_, _)
InBlock(x, k) ==
  IF k > 1 /\ InBlock(x, k - 1) /\ x[k - 1] # ThinkClose THEN TRUE
  ELSE x[k] = ThinkOpen /\ \E j \in DOMAIN x : j > k /\ x[j] = ThinkClose

\* The first n parts of x without those in a block.
RECURSIVE OutsideBlocks(_, _)
OutsideBlocks(x, n) ==
  IF n = 0 THEN <<>>
  ELSE OutsideBlocks(x, n - 1) \o (IF InBlock(x, n) THEN <<>> ELSE <<x[n]>>)

HasBlock(x) ==
  \E i \in DOMAIN x : \E j \in DOMAIN x : i < j /\ x[i] = ThinkOpen /\ x[j] = ThinkClose

\* x from its first to its last part that is not white space.
Trimmed(x) ==
  LET ns == {i \in DOMAIN x : x[i] # Space} IN
  IF ns = {} THEN <<>>
  ELSE SubSeq(x, CHOOSE i \in ns : \A j \in ns : i <= j, CHOOSE i \in ns : \A j \in ns : i >= j)

\* C16: _extract_response_content returns a text in every case: the empty text
\* for a response that cannot be read and for empty content, whatever the
\* reasoning_content; the content without its <think>...</think> blocks, trimmed,
\* when it has such blocks; the trimmed content otherwise. No part of
\* reasoning_content is ever returned.
C16_ExtractNeverSubstitutes ==
  call.fn = "_extract_response_content" =>
    LET r == call.response
        x == r.content
        out == call.tokens
    IN  /\ \A i \in DOMAIN out : out[i] \in TextParts
        /\ (r.malformed \/ x = <<>>) => out = <<>>
        /\ (~r.malformed /\ HasBlock(x)) => out = Trimmed(OutsideBlocks(x, Len(x)))
        /\ (~r.malformed /\ ~HasBlock(x)) => out = Trimmed(x)

C16_Witness ==
  /\ call.fn = "_extract_response_content"
  /\ call.response.content = <<ThinkOpen, "a", ThinkClose, "a">>
  /\ call.response.reasoning # <<>>
  /\ call.tokens = <<"a">>

\* C17 (as claimed): an invocation that returns has inserted no turn or exactly
\* the user turn and then the assistant turn, and returns a reply exactly when it
\* has inserted turns.
C17_ZeroOrTwoTurns ==
  \A t \in Threads :
    pc[t] \in ReplySites =>
      /\ written[t] \in {<<>>, <<UserTurn(t), AssistantTurn(t)>>}
      /\ (loc[t].result # None <=> written[t] # <<>>)

\* A step that changes the table is an insert of one invocation, which appends
\* one turn of that invocation's own conversation.
C17_InsertStep ==
  db' # db =>
    \E t \in Threads :
      /\ pc[t] \in InsertSites /\ pc'[t] # pc[t]
      /\ Len(written'[t]) = Len(written[t]) + 1
      /\ db' = Append(db, written'[t][Len(written'[t])])
      /\ \A u \in Threads \ {t} : written'[u] = written[u]

\* C17 (amended): an invocation inserts turns of its own (conversation, account)
\* only, and every change of the table is such an insert. One that returns None
\* has inserted nothing; one that returns a reply returns the refusal or the
\* generated text and has inserted, in this order, the user turn and the assistant
\* turn with that text, both tagged with the classified intent, less the turns
\* whose insert failed. When no store operation has failed the turns inserted are
\* none or exactly these two, and a reply is returned exactly when they are two.
C17_OwnTurns ==
  \A t \in Threads :
    /\ \A i \in DOMAIN written[t] :
         written[t][i].cookie_id = loc[t].cookie /\ written[t][i].chat_id = loc[t].chat
    /\ pc[t] \in ReplySites =>
         /\ loc[t].result = None => written[t] = <<>>
         /\ loc[t].result # None =>
              /\ loc[t].result = loc[t].reply
              /\ loc[t].result \in {RefuseReply, GeneratedText}
              /\ written[t] \in { <<UserTurn(t), AssistantTurn(t)>>, <<UserTurn(t)>>,
                                   <<AssistantTurn(t)>>, <<>> }
         /\ faults = 0 =>
              /\ written[t] \in {<<>>, <<UserTurn(t), AssistantTurn(t)>>}
              /\ (loc[t].result # None <=> written[t] # <<>>)

C17_ZeroOrTwoTurnsSaved == []C17_OwnTurns /\ [][C17_InsertStep]_vars

C17_Witness ==
  \E t \in Threads :
    /\ pc[t] = "ret_replied" /\ loc[t].result = GeneratedText /\ faults = 0
    /\ written[t] = <<UserTurn(t), AssistantTurn(t)>>

\* C18: clear_client_cache(account) removes that account's connection and
\* timestamp and leaves every other account's entries as they were;
\* clear_client_cache() empties both maps; the next get_client for an account
\* without a cached connection never returns the evicted one: it builds a
\* connection from the settings the account has then, caches and returns it
\* (None when those settings are disabled or keyless or the construction fails).
ClearStep ==
  mloc'.op = "clear" /\ pc' = pc /\ clock' = clock /\ settings' = settings

C18_ClearStep ==
  ClearStep =>
    LET target == mloc'.target IN
    IF target = None
    THEN (\A a \in Accounts : clients'[a] = NoClient) /\ DOMAIN client_last_used' = {}
    ELSE /\ clients'[target] = NoClient /\ target \notin DOMAIN client_last_used'
         /\ \A a \in Accounts \ {target} :
              /\ clients'[a] = clients[a]
              /\ (a \in DOMAIN client_last_used) <=> (a \in DOMAIN client_last_used')
              /\ a \in DOMAIN client_last_used =>
                   client_last_used'[a] = client_last_used[a]

C18_FetchAfterEviction ==
  \A t \in Threads :
    (pc[t] = "idle" /\ pc'[t] = "gc_done" /\ clients[loc'[t].cookie] = NoClient) =>
      LET a == loc'[t].cookie
          usable == settings[a].ai_enabled /\ settings[a].api_key # ""
      IN  /\ loc'[t].result \in {None, settings[a].api_key}
          /\ (usable /\ faults' = faults) => loc'[t].result = settings[a].api_key
          /\ ~usable => loc'[t].result = None
          /\ loc'[t].result # None =>
               /\ clients'[a] = settings[a].api_key
               /\ built'[a] = built[a] + 1

C18_ClearEvicts == [][C18_ClearStep /\ C18_FetchAfterEviction]_vars

\* One caller holds the connection it was given before the account's entry was
\* cleared, another the connection built after it, from the key set in between.
C18_Witness ==
  \E t \in Threads : \E u \in Threads \ {t} :
    /\ pc[t] = "gc_done" /\ pc[u] = "gc_done" /\ loc[t].cookie = loc[u].cookie
    /\ loc[t].result = "k1" /\ loc[u].result = "k2"
    /\ mloc.op = "clear" /\ mloc.target = loc[u].cookie
    /\ clients[loc[u].cookie] = "k2" /\ settings[loc[u].cookie].api_key = "k2"
    /\ \E a \in Accounts \ {loc[u].cookie} : clients[a] # NoClient

\* C19: between the calls of get_client, clear_client_cache and
\* cleanup_unused_clients the accounts with a cached connection are those with a
\* last-used timestamp, none of them in the future: a fetch that returns a
\* connection stamps it with the time of the fetch, a fetch that returns None
\* changes neither map, and a connection and its timestamp leave together.
C19_FetchStep ==
  \A t \in Threads :
    (pc[t] = "idle" /\ pc'[t] = "gc_done") =>
      LET a == loc'[t].cookie IN
      IF loc'[t].result # None
      THEN /\ clients'[a] = loc'[t].result
           /\ a \in DOMAIN client_last_used' /\ client_last_used'[a] = clock
      ELSE clients' = clients /\ client_last_used' = client_last_used

C19_EvictionStep ==
  \A a \in Accounts :
    /\ (clients[a] # NoClient /\ clients'[a] = NoClient) => a \notin DOMAIN client_last_used'
    /\ (a \in DOMAIN client_last_used /\ a \notin DOMAIN client_last_used') =>
         clients'[a] = NoClient

C19_CachedIffStamped ==
  /\ [](MapsAgree /\ \A a \in DOMAIN client_last_used : client_last_used[a] <= clock)
  /\ [][C19_FetchStep /\ C19_EvictionStep]_vars

\* A fetch has returned None for an account without entries, and a sweep has
\* removed an idle connection and left one that was fetched at the time of the sweep.
C19_Witness ==
  /\ mloc.op = "sweep" /\ mloc.expired # {}
  /\ \E t \in Threads :
       /\ pc[t] = "gc_done" /\ loc[t].result = None
       /\ loc[t].cookie \notin DOMAIN client_last_used
  /\ \E a \in DOMAIN client_last_used : client_last_used[a] = clock /\ built[a] = 1 /\ clock > 2

\* The conversation's history holds a refusal.
RefusedBefore(chat, cookie) ==
  LET h == History(chat, cookie) IN
  \E i \in DOMAIN h : h[i].role = "assistant" /\ h[i].content = RefuseReply

\* C20: in a conversation whose messages have been handled one at a time, with no
\* failed store operation, a price message that comes after a refusal is refused
\* too: the count fetched for it is above the cap, since the refused message's own
\* user turn counts.
C20_RefusalIsAbsorbing ==
  \A t \in Threads :
    ( /\ HoldsCount(t) /\ loc[t].intent = "price"
      /\ <<loc[t].chat, loc[t].cookie>> \notin overlap /\ faults = 0
      /\ RefusedBefore(loc[t].chat, loc[t].cookie) )
    => /\ OnRefusalPath(t)
       /\ loc[t].bargain_count > loc[t].snap.max_bargain_rounds

C20_Witness ==
  \E t \in Threads :
    /\ pc[t] = "save_user" /\ OnRefusalPath(t) /\ faults = 0 /\ overlap = {}
    /\ RefusedBefore(loc[t].chat, loc[t].cookie)
    /\ loc[t].snap.max_bargain_rounds = 1 /\ loc[t].bargain_count = 2

\* The number of generated (not refusal) assistant turns tagged price among rows.
GeneratedPriceTurns(rows) ==
  Cardinality({i \in DOMAIN rows : /\ rows[i].role = "assistant"
                                    /\ rows[i].intent = "price"
                                    /\ rows[i].content # RefuseReply})

\* The turns the conversation held from before.
EarlierHistory(chat, cookie) ==
  SelectSeq(EarlierRows, LAMBDA r : r.chat_id = chat /\ r.cookie_id = cookie)

\* C21: with the account's cap m fixed, in a conversation whose messages have
\* been handled one at a time and whose earlier turns were within the cap, with
\* no failed store operation, the history holds at most m generated assistant
\* turns tagged price; under cap 0 every price message is refused and no
\* generated turn tagged price is added.
C21_GeneratedPriceTurnsWithinCap ==
  /\ \A cv \in Conversations :
       LET m == settings[cv[2]].max_bargain_rounds IN
       ( /\ cv \notin overlap /\ faults = 0
         /\ GeneratedPriceTurns(EarlierHistory(cv[1], cv[2])) <= m )
       => GeneratedPriceTurns(History(cv[1], cv[2])) <= m
  /\ \A t \in Threads :
       (HoldsCount(t) /\ loc[t].intent = "price" /\ loc[t].snap.max_bargain_rounds = 0)
       => OnRefusalPath(t)
  /\ \A cv \in Conversations :
       settings[cv[2]].max_bargain_rounds = 0 =>
         GeneratedPriceTurns(History(cv[1], cv[2]))
           = GeneratedPriceTurns(EarlierHistory(cv[1], cv[2]))

\* The cap's last round has been generated and stored, and the next price message
\* is on the refusal path.
C21_Witness ==
  \E t \in Threads :
    /\ pc[t] = "save_user" /\ OnRefusalPath(t) /\ faults = 0 /\ overlap = {}
    /\ loc[t].snap.max_bargain_rounds = 2
    /\ settings[loc[t].cookie].max_bargain_rounds = 2
    /\ GeneratedPriceTurns(History(loc[t].chat, loc[t].cookie)) = 2
    /\ Len(db) > Len(EarlierRows)

====
